---------------------------- MODULE Spec2Model ----------------------------
(***************************************************************************)
(* Forex dashboard (src/app.py): de-duplicated ingestion of trade records  *)
(* into a document store, and the statistics / equity-curve / listing      *)
(* reads over a bounded window of the stored trades.                       *)
(*                                                                         *)
(* JSON values are tagged records: Str(s) is a Python str whose characters *)
(* are the one-character strings of the sequence s, Num(n) is a number     *)
(* held in thousandths (Num(50000) is 50.0), None is JSON null.  A trade   *)
(* record is a TLA+ record whose DOMAIN is the set of keys of the dict, so *)
(* a missing key is a field that is not in the DOMAIN.                     *)
(***************************************************************************)
EXTENDS Integers, Sequences, FiniteSets, TLC

VARIABLES
    store,           \* db.collection('trades'): document id -> document
    pc,              \* per request thread: position in upload_trades
    trades_list,     \* per request thread: argument of process_uploaded_trades
    idx,             \* per request thread: position of the for loop (1-based)
    uploaded_count,  \* per request thread: the local counter
    response,        \* per request thread: the last HTTP response produced
    failed,          \* history: loop positions whose record raised before its write
    first_written,   \* history: document id -> the document first written under it
    store0,          \* history: the store when thread 1's running call started
    calls,           \* history: thread 1's completed upload calls, oldest first
    trades,          \* input of the pure computations (PureSpec)
    stats_out,       \* outcome of get_stats' computation over trades (PureSpec)
    equity_out       \* outcome of equity_curve's computation over trades (PureSpec)

prog_vars == <<store, pc, trades_list, idx, uploaded_count, response, failed, first_written>>
pure_vars == <<trades, stats_out, equity_out>>
vars == <<prog_vars, store0, calls, pure_vars>>

\* ----------------------------------------------------------------- bounds
MaxBatch == 2
NProcs == 2
MaxLimit == 3
MaxTrades == 3
MaxCalls == 2

Procs == 1..NProcs

\* ----------------------------------------------------------------- values
Str(s) == [t |-> "str", v |-> s]
Num(n) == [t |-> "num", v |-> n]
None == [t |-> "none"]
Has(d, k) == k \in DOMAIN d
NoDocs == [i \in {} |-> None]

\* Code points of the characters that occur in the model's strings.
Ord(c) ==
    CASE c = " " -> 32 [] c = "-" -> 45 [] c = "." -> 46
      [] c = "1" -> 49 [] c = "2" -> 50 [] c = "3" -> 51 [] c = "7" -> 55
      [] c = "9" -> 57 [] c = ":" -> 58
      [] c = "E" -> 69 [] c = "G" -> 71 [] c = "_" -> 95
      [] c = "a" -> 97 [] c = "b" -> 98 [] c = "c" -> 99

\* Python's str < str: lexicographic by code point.
RECURSIVE StrLess(_, _)
StrLess(a, b) ==
    IF b = <<>> THEN FALSE
    ELSE IF a = <<>> THEN TRUE
    ELSE IF Head(a) # Head(b) THEN Ord(Head(a)) < Ord(Head(b))
    ELSE StrLess(Tail(a), Tail(b))

\* str.replace(old, new) for one-character old and new.
Replace(s, old, new) == [i \in 1..Len(s) |-> IF s[i] = old THEN new ELSE s[i]]

\* ------------------------------------------------------------- ingestion
\* Line 31 raises KeyError on a missing key and AttributeError when the
\* timestamp has no .replace (a number, null).
TradeIdRaises(trade_data) ==
    \/ ~Has(trade_data, "symbol")
    \/ ~Has(trade_data, "timestamp")
    \/ trade_data.timestamp.t # "str"

Sanitize(ts) == Replace(Replace(Replace(ts, " ", "_"), ":", "-"), ".", "_")

\* f"{symbol}_{timestamp.replace(' ', '_').replace(':', '-').replace('.', '_')}"
trade_id(trade_data) ==
    trade_data.symbol.v \o <<"_">> \o Sanitize(trade_data.timestamp.v)

SERVER_TIMESTAMP == [t |-> "sentinel"]

\* trade_data['firebase_timestamp'] = firestore.SERVER_TIMESTAMP
Stamped(trade_data) ==
    [k \in DOMAIN trade_data \cup {"firebase_timestamp"} |->
        IF k = "firebase_timestamp" THEN SERVER_TIMESTAMP ELSE trade_data[k]]

\* Mutant of SetDoc: the write replaces the collection.
SetDocOnly(st, id, doc) == [k \in {id} |-> doc]

\* doc_ref.set(trade_data): a full overwrite of the document under the id.
SetDoc(st, id, doc) ==
    [k \in DOMAIN st \cup {id} |-> IF k = id THEN doc ELSE st[k]]

\* Mutant of Exists: the existence check is dropped.
ExistsNever(id) == FALSE

\* Line 34: doc_ref.get().exists.
Exists(id) == id \in DOMAIN store

\* Mutant of Continue: the exception ends the loop (break for continue).
ContinueAbort(p) == idx' = [idx EXCEPT ![p] = Len(trades_list[p]) + 1]

\* Lines 40-42: the exception is printed and the loop goes on with the next record.
Continue(p) == idx' = [idx EXCEPT ![p] = @ + 1]

\* Lines 29-37 for one record when no storage call raises.
ProcessTrade(acc, trade_data) ==
    IF TradeIdRaises(trade_data) \/ trade_id(trade_data) \in DOMAIN acc.store
    THEN acc
    ELSE [store |-> SetDoc(acc.store, trade_id(trade_data), Stamped(trade_data)),
          count |-> acc.count + 1]

\* Lines 25-44 when no storage call raises: the store left and the count returned.
RECURSIVE process_uploaded_trades(_, _)
process_uploaded_trades(st, list) ==
    IF list = <<>> THEN [store |-> st, count |-> 0]
    ELSE ProcessTrade(process_uploaded_trades(st, SubSeq(list, 1, Len(list) - 1)),
                      list[Len(list)])

NoResponse == [route |-> "none"]
Pending == [done |-> FALSE]

\* The trade records the upload requests are drawn from.
T12 == Str(<<"1", ":", "2">>)
T1d2 == Str(<<"1", "-", "2">>)
T3 == Str(<<"3">>)
SymE == Str(<<"E">>)
SymG == Str(<<"G">>)
Buy == Str(<<"b">>)

UploadRecords ==
    { [symbol |-> SymE, timestamp |-> T12, trade_type |-> Buy, profit |-> Num(50000)],
      [symbol |-> SymE, timestamp |-> T12, trade_type |-> Buy, profit |-> Num(-20000)],
      [symbol |-> SymE, timestamp |-> T1d2, trade_type |-> Buy, profit |-> Num(1234)],
      [symbol |-> SymG, timestamp |-> T3, profit |-> Str(<<"a", "b", "c">>)],
      [timestamp |-> T3, trade_type |-> Buy, profit |-> Num(50000)],
      [symbol |-> SymE, trade_type |-> Buy, profit |-> Num(50000)],
      [symbol |-> Str(<<>>), timestamp |-> T3, trade_type |-> Buy, profit |-> Num(50000)],
      [symbol |-> SymE, timestamp |-> Str(<<>>), trade_type |-> Buy],
      [symbol |-> SymE, timestamp |-> Num(7000), trade_type |-> Buy, profit |-> Num(50000)] }

RECURSIVE SeqsUpTo(_, _)
SeqsUpTo(S, n) ==
    IF n = 0 THEN {<<>>}
    ELSE LET shorter == SeqsUpTo(S, n - 1)
         IN  shorter \cup {Append(s, x) : s \in {t \in shorter : Len(t) = n - 1}, x \in S}

\* request.json of an upload: a list of records, or one record.
ListBodies == {[list |-> s] : s \in SeqsUpTo(UploadRecords, MaxBatch)}
DictBodies == {[dict |-> r] : r \in UploadRecords}

Init ==
    /\ store = NoDocs
    /\ pc = [p \in Procs |-> "idle"]
    /\ trades_list = [p \in Procs |-> <<>>]
    /\ idx = [p \in Procs |-> 0]
    /\ uploaded_count = [p \in Procs |-> 0]
    /\ response = [p \in Procs |-> NoResponse]
    /\ failed = [p \in Procs |-> {}]
    /\ first_written = NoDocs
    /\ store0 = NoDocs
    /\ calls = <<>>
    /\ trades = <<>>
    /\ stats_out = Pending
    /\ equity_out = Pending

\* upload_trades, lines 182-187: the call of process_uploaded_trades.
upload_trades(p, body) ==
    /\ pc[p] = "idle"
    /\ pc' = [pc EXCEPT ![p] = "loop"]
    /\ trades_list' = [trades_list EXCEPT ![p] = IF Has(body, "list") THEN body.list ELSE <<body.dict>>]
    /\ idx' = [idx EXCEPT ![p] = 1]
    /\ uploaded_count' = [uploaded_count EXCEPT ![p] = 0]
    /\ response' = [response EXCEPT ![p] = NoResponse]
    /\ failed' = [failed EXCEPT ![p] = {}]
    /\ UNCHANGED <<store, first_written>>

\* Lines 29-34 for the record at idx: the identifier and doc_ref.get().exists.
\* getFails: the storage read raises.  Every exception reaches line 40-42.
CheckExists(p, getFails) ==
    /\ pc[p] = "loop"
    /\ idx[p] <= Len(trades_list[p])
    /\ LET trade_data == trades_list[p][idx[p]]
       IN  IF TradeIdRaises(trade_data) \/ getFails
           THEN /\ failed' = [failed EXCEPT ![p] = @ \cup {idx[p]}]
                /\ Continue(p)
                /\ pc' = pc
           ELSE IF Exists(trade_id(trade_data))
           THEN /\ idx' = [idx EXCEPT ![p] = @ + 1]
                /\ UNCHANGED <<pc, failed>>
           ELSE /\ pc' = [pc EXCEPT ![p] = "set"]
                /\ UNCHANGED <<idx, failed>>
    /\ UNCHANGED <<store, trades_list, uploaded_count, response, first_written>>

\* Lines 35-38 for the record at idx: the write, the increment and the print.
\* setFails: the storage write raises and writes nothing.  The print of line 38
\* raises KeyError on a record without trade_type or profit, after the write and
\* the increment: lines 40-42 catch it and nothing of the state changes.
SetDocument(p, setFails) ==
    /\ pc[p] = "set"
    /\ LET trade_data == trades_list[p][idx[p]]
       IN  IF setFails
           THEN /\ failed' = [failed EXCEPT ![p] = @ \cup {idx[p]}]
                /\ Continue(p)
                /\ UNCHANGED <<store, uploaded_count, first_written>>
           ELSE /\ store' = SetDoc(store, trade_id(trade_data), Stamped(trade_data))
                /\ uploaded_count' = [uploaded_count EXCEPT ![p] = @ + 1]
                /\ first_written' =
                       IF trade_id(trade_data) \in DOMAIN first_written THEN first_written
                       ELSE SetDoc(first_written, trade_id(trade_data), Stamped(trade_data))
                /\ idx' = [idx EXCEPT ![p] = @ + 1]
                /\ UNCHANGED failed
    /\ pc' = [pc EXCEPT ![p] = "loop"]
    /\ UNCHANGED <<trades_list, response>>

\* Line 44: the loop is over and process_uploaded_trades returns.
ReturnCount(p) ==
    /\ pc[p] = "loop"
    /\ idx[p] > Len(trades_list[p])
    /\ pc' = [pc EXCEPT ![p] = "done"]
    /\ UNCHANGED <<store, trades_list, idx, uploaded_count, response, failed, first_written>>

\* upload_trades, lines 189-193: the success payload.
UploadResponse(p) ==
    /\ pc[p] = "done"
    /\ response' = [response EXCEPT ![p] =
           [route |-> "upload", status |-> 200, success |-> TRUE,
            uploaded_count |-> uploaded_count[p]]]
    /\ pc' = [pc EXCEPT ![p] = "idle"]
    /\ trades_list' = [trades_list EXCEPT ![p] = <<>>]
    /\ idx' = [idx EXCEPT ![p] = 0]
    /\ uploaded_count' = [uploaded_count EXCEPT ![p] = 0]
    /\ failed' = [failed EXCEPT ![p] = {}]
    /\ UNCHANGED <<store, first_written>>

\* ----------------------------------------------------------- aggregation
\* Lines 61-62: the storage-assigned field is removed from the returned dict.
Strip(doc) == [k \in DOMAIN doc \ {"firebase_timestamp"} |-> doc[k]]

\* Mutant of Newest: the query is ordered ascending.
Oldest(docs) == {d \in docs : \A e \in docs : ~StrLess(e.timestamp.v, d.timestamp.v)}

\* The documents a query ordered by 'timestamp' can return first: those with
\* the greatest timestamp (documents without the field are not in the index).
Newest(docs) == {d \in docs : \A e \in docs : ~StrLess(d.timestamp.v, e.timestamp.v)}

\* Lines 54-59: order_by('timestamp', DESCENDING).limit(limit).stream().  The set
\* of the sequences the store may stream: the order among equal timestamps is the
\* store's choice.
RECURSIVE QueryDesc(_, _)
QueryDesc(docs, limit) ==
    IF limit = 0 \/ docs = {} THEN {<<>>}
    ELSE UNION {{<<d>> \o s : s \in QueryDesc(docs \ {d}, limit - 1)} : d \in Newest(docs)}

\* Lines 52-69: the possible return values.  streamFails: the storage read
\* raises, which line 67-69 turns into the empty list.
get_trades_from_firebase(limit, streamFails) ==
    IF streamFails THEN {<<>>}
    ELSE {[i \in 1..Len(s) |-> Strip(s[i])] :
             s \in QueryDesc({store[id] : id \in {k \in DOMAIN store : Has(store[k], "timestamp")}}, limit)}

IsDigit(c) == Ord(c) \in 48..57

RECURSIVE DigitsValue(_)
DigitsValue(s) ==
    IF s = <<>> THEN 0 ELSE 10 * DigitsValue(SubSeq(s, 1, Len(s) - 1)) + (Ord(s[Len(s)]) - 48)

\* float(v) raises TypeError on None and ValueError on a str that is no number;
\* of the strings the model draws, the digit strings are the numbers.
FloatRaises(v) ==
    \/ v.t = "none"
    \/ v.t = "str" /\ (v.v = <<>> \/ \E i \in 1..Len(v.v) : ~IsDigit(v.v[i]))

\* float(v), in thousandths.
Float(v) == IF v.t = "num" THEN v.v ELSE 1000 * DigitsValue(v.v)

\* float(trade.get('profit', 0)), lines 84, 85 and 157.
ProfitRaises(trade) == Has(trade, "profit") /\ FloatRaises(trade.profit)

\* Mutant of Profit: the default of the get is 1.
ProfitDefaultOne(trade) == IF Has(trade, "profit") THEN Float(trade.profit) ELSE 1000

Profit(trade) == IF Has(trade, "profit") THEN Float(trade.profit) ELSE 0

\* The integer nearest to a / b (b > 0), a tie going to the even one.
RoundDiv(a, b) ==
    LET q == a \div b
        r == a % b
    IN  IF 2 * r < b THEN q
        ELSE IF 2 * r > b THEN q + 1
        ELSE IF q % 2 = 0 THEN q ELSE q + 1

\* round(x, 2) of an amount in thousandths, in hundredths.
Round2(x) == RoundDiv(x, 10)

RECURSIVE SumProfit(_)
SumProfit(ts) == IF ts = <<>> THEN 0 ELSE Profit(Head(ts)) + SumProfit(Tail(ts))

Winning(ts) == {i \in 1..Len(ts) : Profit(ts[i]) > 0}

NoTradesYet == Str(<<"N", "o", " ", "t", "r", "a", "d", "e", "s", " ", "y", "e", "t">>)
Unknown == Str(<<"U", "n", "k", "n", "o", "w", "n">>)

\* Lines 71-105.  total_profit and avg_profit are in hundredths, win_rate in
\* hundredths of a percent.
calculate_stats(ts) ==
    IF ts = <<>>
    THEN [raised |-> FALSE,
          value |-> [total_trades |-> 0, total_profit |-> 0, winning_trades |-> 0,
                     losing_trades |-> 0, win_rate |-> 0, avg_profit |-> 0,
                     last_trade_time |-> NoTradesYet]]
    ELSE IF \E i \in 1..Len(ts) : ProfitRaises(ts[i])
    THEN [raised |-> TRUE]
    ELSE LET total_trades == Len(ts)
             total_profit == SumProfit(ts)
             winning_trades == Cardinality(Winning(ts))
             losing_trades == total_trades - winning_trades
         IN  [raised |-> FALSE,
              value |-> [total_trades |-> total_trades,
                         total_profit |-> Round2(total_profit),
                         winning_trades |-> winning_trades,
                         losing_trades |-> losing_trades,
                         win_rate |-> RoundDiv(winning_trades * 10000, total_trades),
                         avg_profit |-> RoundDiv(total_profit, 10 * total_trades),
                         last_trade_time |->
                             IF Has(ts[1], "timestamp") THEN ts[1].timestamp ELSE Unknown]]

\* get_stats, lines 118-121: the payload over the trades read.
get_stats_response(ts) ==
    LET stats == calculate_stats(ts)
    IN  IF stats.raised
        THEN [route |-> "stats", status |-> 500, error |-> TRUE]
        ELSE [route |-> "stats", status |-> 200, body |-> stats.value]

\* Line 149: the sort key x.get('timestamp', '').
SortKey(trade) == IF Has(trade, "timestamp") THEN trade.timestamp.v ELSE <<>>

\* Mutant of InsertSorted: x goes before the elements equal to it.
RECURSIVE InsertSortedUnstable(_, _)
InsertSortedUnstable(sorted, x) ==
    IF sorted = <<>> THEN <<x>>
    ELSE IF ~StrLess(SortKey(Head(sorted)), SortKey(x)) THEN <<x>> \o sorted
    ELSE <<Head(sorted)>> \o InsertSortedUnstable(Tail(sorted), x)

\* Lines 147-151: sorted() is stable, so x goes after the elements that are not
\* greater than it.
RECURSIVE InsertSorted(_, _)
InsertSorted(sorted, x) ==
    IF sorted = <<>> THEN <<x>>
    ELSE IF StrLess(SortKey(x), SortKey(Head(sorted))) THEN <<x>> \o sorted
    ELSE <<Head(sorted)>> \o InsertSorted(Tail(sorted), x)

RECURSIVE SortedTrades(_)
SortedTrades(ts) ==
    IF ts = <<>> THEN <<>>
    ELSE InsertSorted(SortedTrades(SubSeq(ts, 1, Len(ts) - 1)), ts[Len(ts)])

\* Line 159: trade.get('close_time', trade.get('timestamp', '')).
TradeTime(trade) ==
    IF Has(trade, "close_time") THEN trade.close_time
    ELSE IF Has(trade, "timestamp") THEN trade.timestamp ELSE Str(<<>>)

\* Lines 153-164: one point per sorted trade, equity in hundredths.
EquityData(sorted_trades) ==
    [k \in 1..Len(sorted_trades) |->
        [date |-> TradeTime(sorted_trades[k]),
         equity |-> Round2(SumProfit(SubSeq(sorted_trades, 1, k)))]]

\* equity_curve, lines 140-176: the payload over the trades read.
equity_curve_response(ts) ==
    IF ts = <<>>
    THEN [route |-> "equity", status |-> 200, body |-> <<>>]
    ELSE IF \E i \in 1..Len(ts) : ProfitRaises(ts[i])
    THEN [route |-> "equity", status |-> 500, error |-> TRUE]
    ELSE [route |-> "equity", status |-> 200, body |-> EquityData(SortedTrades(ts))]

StatsWindow == 1000
EquityWindow == 100
DefaultLimit == 50

\* GET /api/stats, lines 114-121.  The fields limit and read_failed of a read's
\* response are history: what was asked and whether the storage read raised.
get_stats(p, streamFails) ==
    /\ pc[p] = "idle"
    /\ \E ts \in get_trades_from_firebase(StatsWindow, streamFails) :
           response' = [response EXCEPT ![p] =
               [k \in DOMAIN get_stats_response(ts) \cup {"limit", "read_failed"} |->
                   CASE k = "limit" -> StatsWindow
                     [] k = "read_failed" -> streamFails
                     [] OTHER -> get_stats_response(ts)[k]]]
    /\ UNCHANGED <<store, pc, trades_list, idx, uploaded_count, failed, first_written>>

\* GET /api/trades, lines 123-130.
get_trades(p, limit, streamFails) ==
    /\ pc[p] = "idle"
    /\ \E ts \in get_trades_from_firebase(limit, streamFails) :
           response' = [response EXCEPT ![p] =
               [route |-> "trades", status |-> 200, body |-> ts,
                limit |-> limit, read_failed |-> streamFails]]
    /\ UNCHANGED <<store, pc, trades_list, idx, uploaded_count, failed, first_written>>

\* GET /api/equity-curve, lines 132-176.
equity_curve(p, streamFails) ==
    /\ pc[p] = "idle"
    /\ \E ts \in get_trades_from_firebase(EquityWindow, streamFails) :
           response' = [response EXCEPT ![p] =
               [k \in DOMAIN equity_curve_response(ts) \cup {"limit", "read_failed"} |->
                   CASE k = "limit" -> EquityWindow
                     [] k = "read_failed" -> streamFails
                     [] OTHER -> equity_curve_response(ts)[k]]]
    /\ UNCHANGED <<store, pc, trades_list, idx, uploaded_count, failed, first_written>>

\* ------------------------------------------------------- specifications
\* The records of the concurrent requests: those with a non-empty symbol and
\* timestamp whose identifiers differ unless symbol and timestamp agree (two of
\* one pair that differ in profit, and one of another pair).
ValidRecords ==
    {r \in UploadRecords :
        /\ ~TradeIdRaises(r)
        /\ r.symbol.v # <<>>
        /\ r.timestamp \in {T12, T3}}

\* A step of the program that leaves the history of thread 1's call alone.
Untracked(A) == A /\ UNCHANGED <<store0, calls, pure_vars>>

\* Every interleaving of the upload requests of all threads (Flask serves each
\* request on its own thread); each request sends one valid record (line 187).
NextConc ==
    \E p \in Procs :
        \/ \E r \in ValidRecords : Untracked(upload_trades(p, [dict |-> r]))
        \/ \E f \in BOOLEAN : Untracked(CheckExists(p, f))
        \/ \E f \in BOOLEAN : Untracked(SetDocument(p, f))
        \/ Untracked(ReturnCount(p))
        \/ Untracked(UploadResponse(p))

SpecConc == Init /\ [][NextConc]_vars

\* A step of thread 1 that records the store its call started from.
Tracked(A) ==
    /\ A
    /\ store0' = IF pc'[1] = "idle" THEN NoDocs
                 ELSE IF pc[1] = "idle" THEN store ELSE store0
    /\ UNCHANGED <<calls, pure_vars>>

\* Requests that do not overlap: thread 1 serves them one after the other.
Next ==
    \/ \E b \in ListBodies \cup DictBodies : Tracked(upload_trades(1, b))
    \/ \E f \in BOOLEAN : Tracked(CheckExists(1, f))
    \/ \E f \in BOOLEAN : Tracked(SetDocument(1, f))
    \/ Tracked(ReturnCount(1))
    \/ Tracked(UploadResponse(1))
    \/ \E f \in BOOLEAN : Tracked(get_stats(1, f))
    \/ \E limit \in 1..MaxLimit \cup {DefaultLimit}, f \in BOOLEAN : Tracked(get_trades(1, limit, f))
    \/ \E f \in BOOLEAN : Tracked(equity_curve(1, f))

Spec == Init /\ [][Next]_vars

\* A step of thread 1 that also records each upload call as it completes.
Recorded(A) ==
    /\ A
    /\ store0' = IF pc'[1] = "idle" THEN NoDocs
                 ELSE IF pc[1] = "idle" THEN store ELSE store0
    /\ calls' = IF pc[1] = "done"
                THEN Append(calls, [list |-> trades_list[1], count |-> uploaded_count[1],
                                    failed |-> failed[1], before |-> store0])
                ELSE calls
    /\ UNCHANGED pure_vars

\* The stores that ingestion leaves behind.
IngestedStores ==
    {process_uploaded_trades(NoDocs, b).store : b \in SeqsUpTo(UploadRecords, MaxBatch)}

InitTwice ==
    /\ store \in IngestedStores
    /\ pc = [p \in Procs |-> "idle"]
    /\ trades_list = [p \in Procs |-> <<>>]
    /\ idx = [p \in Procs |-> 0]
    /\ uploaded_count = [p \in Procs |-> 0]
    /\ response = [p \in Procs |-> NoResponse]
    /\ failed = [p \in Procs |-> {}]
    /\ first_written = store
    /\ store0 = NoDocs
    /\ calls = <<>>
    /\ trades = <<>>
    /\ stats_out = Pending
    /\ equity_out = Pending

\* Up to MaxCalls successive upload requests of one record each, from any store
\* that ingestion leaves behind.
NextTwice ==
    \/ /\ Len(calls) < MaxCalls
       /\ \E r \in UploadRecords : Recorded(upload_trades(1, [dict |-> r]))
    \/ \E f \in BOOLEAN : Recorded(CheckExists(1, f))
    \/ \E f \in BOOLEAN : Recorded(SetDocument(1, f))
    \/ Recorded(ReturnCount(1))
    \/ Recorded(UploadResponse(1))

SpecTwice == InitTwice /\ [][NextTwice]_vars

\* The pure computations, over every list of up to MaxTrades of these trades.
StatTrades ==
    { [timestamp |-> T1d2, profit |-> Num(50000)],
      [timestamp |-> T12, profit |-> Num(-20000)],
      [timestamp |-> T1d2, profit |-> Num(1234), close_time |-> Str(<<"9">>)],
      [timestamp |-> T12],
      [timestamp |-> T3, profit |-> Str(<<"a", "b", "c">>)],
      [timestamp |-> T3, profit |-> None],
      [profit |-> Num(0)],
      [timestamp |-> T3, profit |-> Str(<<"7">>)] }

InitPure ==
    /\ store = NoDocs
    /\ pc = [p \in Procs |-> "idle"]
    /\ trades_list = [p \in Procs |-> <<>>]
    /\ idx = [p \in Procs |-> 0]
    /\ uploaded_count = [p \in Procs |-> 0]
    /\ response = [p \in Procs |-> NoResponse]
    /\ failed = [p \in Procs |-> {}]
    /\ first_written = NoDocs
    /\ store0 = NoDocs
    /\ calls = <<>>
    /\ trades \in SeqsUpTo(StatTrades, MaxTrades)
    /\ stats_out = Pending
    /\ equity_out = Pending

ComputeStats ==
    /\ stats_out = Pending
    /\ stats_out' = get_stats_response(trades)
    /\ UNCHANGED <<prog_vars, store0, calls, trades, equity_out>>

ComputeEquity ==
    /\ equity_out = Pending
    /\ equity_out' = equity_curve_response(trades)
    /\ UNCHANGED <<prog_vars, store0, calls, trades, stats_out>>

NextPure == ComputeStats \/ ComputeEquity

PureSpec == InitPure /\ [][NextPure]_vars


\* ------------------------------------------------------------------ claims
\* A record with a symbol and a timestamp string (the data model's trade record).
HasPair(r) == Has(r, "symbol") /\ Has(r, "timestamp") /\ r.timestamp.t = "str"
SamePair(a, b) == a.symbol = b.symbol /\ a.timestamp = b.timestamp

\* Two successive calls that submit records of one (symbol, timestamp) pair to a
\* store that did not hold its identifier, and that are not both hit by a storage
\* failure.
TwoCalls(i) ==
    /\ HasPair(calls[i].list[1])
    /\ HasPair(calls[i + 1].list[1])
    /\ SamePair(calls[i].list[1], calls[i + 1].list[1])
    /\ trade_id(calls[i].list[1]) \notin DOMAIN calls[i].before
    /\ (calls[i].failed = {} \/ calls[i + 1].failed = {})

\* C1: a record submitted in two successive calls to a store that does not hold
\* its identifier is counted once in all, the store then holds exactly one
\* document of its symbol and timestamp, and that document is the one the first
\* call wrote (the second call's, when a storage failure kept the first call
\* from writing).
C1_SameRecordTwice ==
    \A i \in 1..(Len(calls) - 1) :
        TwoCalls(i) =>
            LET a == calls[i]
                b == calls[i + 1]
                id == trade_id(a.list[1])
            IN  /\ a.count + b.count = 1
                /\ id \in DOMAIN store
                /\ Cardinality({k \in DOMAIN store : SamePair(store[k], a.list[1])}) = 1
                /\ a.failed = {} => a.count = 1 /\ store[id] = Stamped(a.list[1])
                /\ a.failed # {} => store[id] = Stamped(b.list[1])

C1_Witness ==
    /\ Len(calls) >= 2
    /\ TwoCalls(1)
    /\ calls[1].failed = {} /\ calls[2].failed = {}
    /\ calls[1].list # calls[2].list
    /\ calls[1].before # NoDocs

\* C2: a batch of N records that each have a symbol and a timestamp, pairwise
\* distinct in that pair, ingested without a storage failure into a store that
\* holds none of them, returns N and adds N documents.
C2_DistinctBatchAllUploaded ==
    LET list == trades_list[1]
    IN  (/\ pc[1] = "done"
         /\ failed[1] = {}
         /\ \A i \in 1..Len(list) : HasPair(list[i])
         /\ \A i, j \in 1..Len(list) : i # j => ~SamePair(list[i], list[j])
         /\ \A i \in 1..Len(list), k \in DOMAIN store0 : ~SamePair(store0[k], list[i]))
        => /\ uploaded_count[1] = Len(list)
           /\ Cardinality(DOMAIN store) = Cardinality(DOMAIN store0) + Len(list)

\* C3: a document, once present, always equals the record first written under
\* its identifier.
C3_NeverOverwritten ==
    \A id \in DOMAIN first_written :
        id \in DOMAIN store /\ store[id] = first_written[id]

\* C3 (amended): under every interleaving a document, once present, is never
\* removed; a step changes it only as the write of a request whose existence
\* check found the identifier absent; and a request whose check finds the
\* identifier present does not write.
C3_OverwriteOnlyAfterAbsentCheck ==
    [][/\ \A id \in DOMAIN store :
              /\ id \in DOMAIN store'
              /\ store'[id] # store[id] =>
                     \E p \in Procs : /\ pc[p] = "set" /\ pc'[p] = "loop"
                                      /\ trade_id(trades_list[p][idx[p]]) = id
       /\ \A p \in Procs :
              (pc[p] = "loop" /\ pc'[p] = "set") =>
                  trade_id(trades_list[p][idx[p]]) \notin DOMAIN store]_vars

C3_Witness ==
    \E id \in DOMAIN store : store[id] # first_written[id]

\* A record whose symbol or timestamp is missing or the empty string.
Incomplete(r) ==
    \/ ~Has(r, "symbol")
    \/ ~Has(r, "timestamp")
    \/ r.symbol = Str(<<>>)
    \/ r.timestamp = Str(<<>>)

\* C4: a record whose symbol or timestamp is missing or empty is skipped: no
\* document is written for it and the counter is not incremented for it.
C4_IncompleteSkipped ==
    LET list == trades_list[1]
    IN  pc[1] = "done" =>
            /\ \A i \in 1..Len(list) :
                   Incomplete(list[i]) =>
                       ~\E k \in DOMAIN store \ DOMAIN store0 : store[k] = Stamped(list[i])
            /\ uploaded_count[1] <= Cardinality({i \in 1..Len(list) : ~Incomplete(list[i])})

\* The batch without the records at the positions bad.
RECURSIVE Without(_, _)
Without(list, bad) ==
    IF list = <<>> THEN <<>>
    ELSE LET rest == Without(SubSeq(list, 1, Len(list) - 1), bad)
         IN  IF Len(list) \in bad THEN rest ELSE Append(rest, list[Len(list)])

\* C5: a record that fails does not abort the batch: the store left and the count
\* returned are those of the batch without the failing records, every document
\* stays, and the count is the number of documents the call added.
C5_FailureIsolated ==
    pc[1] = "done" =>
        LET ref == process_uploaded_trades(store0, Without(trades_list[1], failed[1]))
        IN  /\ store = ref.store
            /\ uploaded_count[1] = ref.count
            /\ DOMAIN store0 \subseteq DOMAIN store
            /\ uploaded_count[1] = Cardinality(DOMAIN store \ DOMAIN store0)

C5_Witness ==
    /\ pc[1] = "done"
    /\ \E i \in failed[1], j \in 1..Len(trades_list[1]) :
           /\ i < j
           /\ j \notin failed[1]
           /\ trade_id(trades_list[1][j]) \in DOMAIN store \ DOMAIN store0

\* The sum of the profits that are present, in thousandths.
RECURSIVE PresentProfitSum(_)
PresentProfitSum(ts) ==
    IF ts = <<>> THEN 0
    ELSE (IF Has(Head(ts), "profit") THEN Float(Head(ts).profit) ELSE 0)
         + PresentProfitSum(Tail(ts))

Gains(ts) == {i \in 1..Len(ts) : Has(ts[i], "profit") /\ Float(ts[i].profit) > 0}
StatsComputed == stats_out # Pending /\ stats_out.status = 200 /\ trades # <<>>

\* C6: a trade with no profit field adds 0 to total_profit and is counted in
\* neither winning_trades nor losing_trades.
C6_MissingProfitNeitherWinNorLoss ==
    StatsComputed =>
        /\ stats_out.body.total_profit = Round2(PresentProfitSum(trades))
        /\ stats_out.body.winning_trades = Cardinality(Gains(trades))
        /\ stats_out.body.losing_trades =
               Cardinality({i \in 1..Len(trades) :
                               Has(trades[i], "profit") /\ Float(trades[i].profit) <= 0})

\* C6 (amended): a trade with no profit field adds 0 to total_profit and is not
\* counted in winning_trades; it is counted in losing_trades, which is
\* total_trades - winning_trades: the trades whose profit is absent or not > 0.
C6_MissingProfitCountsAsLoss ==
    StatsComputed =>
        /\ stats_out.body.total_trades = Len(trades)
        /\ stats_out.body.total_profit = Round2(PresentProfitSum(trades))
        /\ stats_out.body.winning_trades = Cardinality(Gains(trades))
        /\ stats_out.body.losing_trades =
               Cardinality({i \in 1..Len(trades) :
                               ~Has(trades[i], "profit") \/ Float(trades[i].profit) <= 0})

C6_Witness ==
    /\ StatsComputed
    /\ \E i \in 1..Len(trades) : ~Has(trades[i], "profit")
    /\ Gains(trades) # {}

\* C7: the statistics request never ends in an error: every input list gets a
\* summary, the zeroed one with 'No trades yet' on empty input.
C7_StatsNeverRaise ==
    stats_out # Pending =>
        /\ stats_out.status = 200
        /\ trades = <<>> =>
               stats_out.body = [total_trades |-> 0, total_profit |-> 0,
                                 winning_trades |-> 0, losing_trades |-> 0,
                                 win_rate |-> 0, avg_profit |-> 0,
                                 last_trade_time |-> NoTradesYet]

\* The lists that hold the elements of ts in some order.
Reorderings(ts) ==
    {[i \in 1..Len(ts) |-> ts[f[i]]] : f \in Permutations(1..Len(ts))}

EquityComputed == equity_out # Pending /\ equity_out.status = 200

\* The points of the trades ts taken in the order f: the date of each and the
\* running sum of the profits, rounded to hundredths.
PointsInOrder(ts, f) ==
    [k \in 1..Len(ts) |->
        [date |-> IF Has(ts[f[k]], "close_time") THEN ts[f[k]].close_time
                  ELSE IF Has(ts[f[k]], "timestamp") THEN ts[f[k]].timestamp
                  ELSE Str(<<>>),
         equity |-> Round2(PresentProfitSum([j \in 1..k |-> ts[f[j]]]))]]

\* C8: the equity curve has one point per trade in ascending timestamp order,
\* each with the running sum of the profits and the close_time or timestamp, and
\* it is the same for every permutation of the input.
C8_PermutationInvariant ==
    EquityComputed =>
        /\ \E f \in Permutations(1..Len(trades)) :
               /\ \A i, j \in 1..Len(trades) :
                      i < j => ~StrLess(SortKey(trades[f[j]]), SortKey(trades[f[i]]))
               /\ equity_out.body = PointsInOrder(trades, f)
        /\ \A ts \in Reorderings(trades) : equity_curve_response(ts) = equity_out

\* C8 (amended): the equity curve has one point per trade in ascending timestamp
\* order, trades that share a timestamp keeping their input order; each point has
\* the running sum of the profits, rounded to 2 decimals, and the close_time or
\* else the timestamp; and the result is the same for every permutation of an
\* input whose timestamps are pairwise distinct.
C8_StableEquityCurve ==
    EquityComputed =>
        /\ Len(equity_out.body) = Len(trades)
        /\ \E f \in Permutations(1..Len(trades)) :
               /\ \A i, j \in 1..Len(trades) :
                      i < j =>
                          /\ ~StrLess(SortKey(trades[f[j]]), SortKey(trades[f[i]]))
                          /\ SortKey(trades[f[i]]) = SortKey(trades[f[j]]) => f[i] < f[j]
               /\ equity_out.body = PointsInOrder(trades, f)
        /\ (\A i, j \in 1..Len(trades) : i # j => SortKey(trades[i]) # SortKey(trades[j]))
               => \A ts \in Reorderings(trades) : equity_curve_response(ts) = equity_out

C8_Witness ==
    /\ EquityComputed
    /\ \E i, j \in 1..Len(trades) :
           /\ i < j
           /\ StrLess(SortKey(trades[j]), SortKey(trades[i]))
           /\ Has(trades[i], "close_time")
    /\ \E i, j \in 1..Len(trades) : i # j /\ SortKey(trades[i]) = SortKey(trades[j])

Min(a, b) == IF a < b THEN a ELSE b

\* C9: a listing read that the store answers returns min(limit, n) records, the
\* ones with the greatest timestamps, in descending timestamp order, each without
\* firebase_timestamp, and leaves the store unchanged.
C9_ListingNewestFirst ==
    [][(response'[1].route = "trades" /\ ~response'[1].read_failed) =>
          LET body == response'[1].body
              docs == {Strip(store[k]) : k \in DOMAIN store}
          IN  /\ store' = store
              /\ Len(body) = Min(response'[1].limit, Cardinality(DOMAIN store))
              /\ \A i \in 1..Len(body) :
                     body[i] \in docs /\ ~Has(body[i], "firebase_timestamp")
              /\ \A i, j \in 1..Len(body) :
                     i < j => /\ body[i] # body[j]
                              /\ ~StrLess(body[i].timestamp.v, body[j].timestamp.v)
              /\ \A d \in docs \ {body[i] : i \in 1..Len(body)} :
                     \A i \in 1..Len(body) : ~StrLess(body[i].timestamp.v, d.timestamp.v)]_vars

C9_Witness ==
    /\ response[1].route = "trades"
    /\ ~response[1].read_failed
    /\ response[1].limit = 2
    /\ Cardinality(DOMAIN store) >= 3
    /\ Len(response[1].body) = 2

\* C10: when the storage read fails, the statistics and the equity-curve requests
\* answer with a structured error payload (an object with an error field), not
\* with a normal data response.
C10_ReadFailureSurfaced ==
    (response[1].route \in {"stats", "equity"} /\ response[1].read_failed)
        => Has(response[1], "error")

=============================================================================
